---- MODULE Spec2Model ----
(***************************************************************************)
(* Model of modules/skybrush_converter.py: Point4D / Color4D value types,  *)
(* Trajectory, LightCode and SkybrushConverter.                             *)
(*                                                                         *)
(* Numbers are fixed-point: an integer v stands for the value v / Unit.    *)
(* Python lists are sequences; a dict is the sequence of its (key, value)  *)
(* entries in insertion order, with pairwise distinct keys.                *)
(***************************************************************************)
EXTENDS Integers, Sequences, FiniteSets, TLC

\* ---------------------------------------------------------------- bounds
MaxTime == 3        \* times are 0 .. MaxTime half-units
MaxInit == 2        \* longest list handed to a constructor
MaxLen == 3         \* append is exercised while the list is shorter than this
MaxDrones == 2      \* largest number of entries of a mapping
MaxExportDrones == 1 \* largest number of drones of a converter that is written out
MaxCalls == 1       \* calls made on one converter after its construction

\* fixed-point scale: v stands for v / Unit
Unit == 10

Times == {5 * i : i \in 0..MaxTime}
Coords == {-15, 5}

None == "None"

\* ------------------------------------------------------------ value types
Point4D == [t : Times, x : Coords, y : {0}, z : {25}]

\* the dataclass takes any int as a channel: 300 is outside the documented range
Color4D == [t : Times, r : {0, 255, 300}, g : {0}, b : {255}, is_fade : BOOLEAN]

\* ------------------------------------------------------------ list helpers
\* all lists over S of length at most n
ListsUpTo(S, n) == UNION {[1..k -> S] : k \in 0..n}

\* insertion of e into a list sorted by t, after every element whose t is <= e.t
RECURSIVE InsertByT(_, _)
InsertByT(s, e) ==
    IF s = <<>> THEN <<e>>
    ELSE IF s[Len(s)].t <= e.t THEN Append(s, e)
    ELSE Append(InsertByT(SubSeq(s, 1, Len(s) - 1), e), s[Len(s)])

\* sorted(seq, key=attrgetter("t")): a stable sort on the t field alone
RECURSIVE SortedByT(_)
SortedByT(s) ==
    IF s = <<>> THEN <<>>
    ELSE InsertByT(SortedByT(SubSeq(s, 1, Len(s) - 1)), s[Len(s)])

StrictlyIncreasing(s) == \A i, j \in 1..Len(s) : i < j => s[i].t < s[j].t
NonDecreasing(s) == \A i, j \in 1..Len(s) : i < j => s[i].t <= s[j].t

\* ---------------------------------------------------------------- state
VARIABLES
    points,     \* Trajectory.points
    tcall,      \* the last call made on the trajectory, its argument and outcome
    colors,     \* LightCode.colors
    lcall,      \* the last call made on the light code
    conv,       \* the SkybrushConverter object: _show_title, _trajectories, _lights
    ccall,      \* the last call made on the converter, its arguments and outcome
    fs,         \* the files the converter writes: destinations and temporary directory
    threads,    \* two threads calling append on one object: where each of them is
    heap        \* list objects by identity, and the list each instance stores

vars == <<points, tcall, colors, lcall, conv, ccall, fs, threads, heap>>

\* no thread is running, no list object is tracked
NoThreads == <<>>
NoHeap == <<>>

NoCall == [op |-> "init", arg |-> None, before |-> <<>>, result |-> "ok", out |-> None,
           n |-> 0]

\* ------------------------------------------------------------- Trajectory
\* Trajectory.__init__
Trajectory_init(pts) == SortedByT(pts)

\* faulty variant: the comparison of Trajectory.append written with > instead of >=
Trajectory_append_raises_gt(pts, point) ==
    pts # <<>> /\ pts[Len(pts)].t > point.t

\* the guard of Trajectory.append that raises ValueError
Trajectory_append_raises(pts, point) ==
    pts # <<>> /\ pts[Len(pts)].t >= point.t

\* Trajectory.append
Trajectory_append(point) ==
    /\ Len(points) < MaxLen
    /\ IF Trajectory_append_raises(points, point)
       THEN /\ points' = points
            /\ tcall' = [op |-> "append", arg |-> point, before |-> points,
                         result |-> "ValueError", out |-> None, n |-> 0]
       ELSE /\ points' = Append(points, point)
            /\ tcall' = [op |-> "append", arg |-> point, before |-> points,
                         result |-> "ok", out |-> None, n |-> 0]
    /\ UNCHANGED <<colors, lcall, conv, ccall, fs, threads, heap>>

\* -------------------------------------------------------------- LightCode
\* faulty variant: the constructor keeps the caller's order
LightCode_init_unsorted(cols) == cols

\* LightCode.__init__
LightCode_init(cols) == SortedByT(cols)

\* faulty variant: the comparison of LightCode.append written with >= instead of >
LightCode_append_raises_ge(cols, color) ==
    cols # <<>> /\ cols[Len(cols)].t >= color.t

\* faulty variant: the guard is missing, append never raises
LightCode_append_raises_never(cols, color) == FALSE

\* the guard of LightCode.append that raises ValueError
LightCode_append_raises(cols, color) ==
    cols # <<>> /\ cols[Len(cols)].t > color.t

\* LightCode.append
LightCode_append(color) ==
    /\ Len(colors) < MaxLen
    /\ IF LightCode_append_raises(colors, color)
       THEN /\ colors' = colors
            /\ lcall' = [op |-> "append", arg |-> color, before |-> colors,
                         result |-> "ValueError", out |-> None, n |-> 0]
       ELSE /\ colors' = Append(colors, color)
            /\ lcall' = [op |-> "append", arg |-> color, before |-> colors,
                         result |-> "ok", out |-> None, n |-> 0]
    /\ UNCHANGED <<points, tcall, conv, ccall, fs, threads, heap>>

\* ----------------------------------------------------------------- rounding
RECURSIVE Pow10(_)
Pow10(n) == IF n <= 0 THEN 1 ELSE 10 * Pow10(n - 1)

\* faulty variant: always the next multiple of q above v, also from a multiple
RoundHalfEven_up(v, q) == ((v \div q) + 1) * q

\* the multiple of q nearest to v, ties going to the even multiple
RoundHalfEven(v, q) ==
    LET lo == (v \div q) * q
        r == v - lo
    IN  IF 2 * r < q THEN lo
        ELSE IF 2 * r > q THEN lo + q
        ELSE IF (lo \div q) % 2 = 0 THEN lo ELSE lo + q

\* round(x, ndigits=ndigits) of a float x, held as the fixed-point integer v
RoundFloat(v, ndigits) ==
    IF ndigits >= 0
    THEN IF Pow10(ndigits) >= Unit THEN v
         ELSE RoundHalfEven(v, Unit \div Pow10(ndigits))
    ELSE RoundHalfEven(v, Unit * Pow10(-ndigits))

\* round(n, ndigits=ndigits) of an int n
RoundInt(n, ndigits) ==
    IF ndigits >= 0 THEN n ELSE RoundHalfEven(n, Pow10(-ndigits))

\* faulty variant: the entries come out last point first
RECURSIVE PointEntries_reversed(_, _)
PointEntries_reversed(pts, ndigits) ==
    IF pts = <<>> THEN <<>>
    ELSE PointEntries_reversed(Tail(pts), ndigits)
         \o << <<RoundFloat(pts[1].t, ndigits),
                 <<RoundFloat(pts[1].x, ndigits),
                   RoundFloat(pts[1].y, ndigits),
                   RoundFloat(pts[1].z, ndigits)>>,
                 <<>>>> >>

\* the list comprehension of Trajectory.as_dict: one entry per point, in order
RECURSIVE PointEntries(_, _)
PointEntries(pts, ndigits) ==
    IF pts = <<>> THEN <<>>
    ELSE << <<RoundFloat(pts[1].t, ndigits),
              <<RoundFloat(pts[1].x, ndigits),
                RoundFloat(pts[1].y, ndigits),
                RoundFloat(pts[1].z, ndigits)>>,
              <<>>>> >>
         \o PointEntries(Tail(pts), ndigits)

\* Trajectory.as_dict
Trajectory_as_dict(pts, ndigits) ==
    [points |-> PointEntries(pts, ndigits), version |-> 1]

\* the list comprehension of LightCode.as_dict: one entry per color, in order
RECURSIVE ColorEntries(_, _)
ColorEntries(cols, ndigits) ==
    IF cols = <<>> THEN <<>>
    ELSE << <<RoundFloat(cols[1].t, ndigits),
              <<RoundInt(cols[1].r, ndigits),
                RoundInt(cols[1].g, ndigits),
                RoundInt(cols[1].b, ndigits)>>,
              cols[1].is_fade>> >>
         \o ColorEntries(Tail(cols), ndigits)

\* LightCode.as_dict
LightCode_as_dict(cols, ndigits) ==
    [data |-> ColorEntries(cols, ndigits), version |-> 1]

\* the precisions as_dict is called with on a trajectory or a light code
DocNDigits == {-1, 0, 3}

\* Trajectory.as_dict, called
Trajectory_as_dict_call(ndigits) ==
    /\ tcall' = [op |-> "as_dict", arg |-> ndigits, before |-> points,
                 result |-> "ok", out |-> Trajectory_as_dict(points, ndigits), n |-> 0]
    /\ UNCHANGED <<points, colors, lcall, conv, ccall, fs, threads, heap>>

\* LightCode.as_dict, called
LightCode_as_dict_call(ndigits) ==
    /\ lcall' = [op |-> "as_dict", arg |-> ndigits, before |-> colors,
                 result |-> "ok", out |-> LightCode_as_dict(colors, ndigits), n |-> 0]
    /\ UNCHANGED <<colors, points, tcall, conv, ccall, fs, threads, heap>>

\* ------------------------------------------------------------- drone names
\* a name is the sequence of its characters
Digits == {"0", "1", "2"}
Ord(c) == CASE c = "0" -> 48 [] c = "1" -> 49 [] c = "2" -> 50 [] c = "d" -> 100
DigitValue(c) == Ord(c) - 48

DroneNames == {<<"d", "2">>, <<"d", "1", "0">>, <<"d", "0", "1", "0">>}

\* str < str: character by character, a proper prefix first
RECURSIVE StrLess(_, _)
StrLess(a, b) ==
    IF b = <<>> THEN FALSE
    ELSE IF a = <<>> THEN TRUE
    ELSE IF Ord(a[1]) # Ord(b[1]) THEN Ord(a[1]) < Ord(b[1])
    ELSE StrLess(Tail(a), Tail(b))

\* the key natsort gives a string: its maximal digit runs as ints, the text
\* between them as strings, and an empty string in front of a leading number
RECURSIVE NatTokens(_, _)
NatTokens(name, acc) ==
    IF name = <<>> THEN acc
    ELSE LET c == name[1]
             n == Len(acc)
         IN  IF c \in Digits
             THEN IF n > 0 /\ acc[n].num
                  THEN NatTokens(Tail(name),
                         [acc EXCEPT ![n].int = 10 * @ + DigitValue(c)])
                  ELSE NatTokens(Tail(name),
                         Append(IF n = 0
                                THEN <<[num |-> FALSE, int |-> 0, str |-> <<>>]>>
                                ELSE acc,
                                [num |-> TRUE, int |-> DigitValue(c), str |-> <<>>]))
             ELSE IF n > 0 /\ ~acc[n].num
                  THEN NatTokens(Tail(name),
                         [acc EXCEPT ![n].str = Append(@, c)])
                  ELSE NatTokens(Tail(name),
                         Append(acc, [num |-> FALSE, int |-> 0, str |-> <<c>>]))

natsort_key(name) == NatTokens(name, <<>>)

\* tuple < tuple over natsort keys
RECURSIVE KeyLess(_, _)
KeyLess(a, b) ==
    IF b = <<>> THEN FALSE
    ELSE IF a = <<>> THEN TRUE
    ELSE IF a[1] = b[1] THEN KeyLess(Tail(a), Tail(b))
    ELSE IF a[1].num THEN a[1].int < b[1].int
    ELSE StrLess(a[1].str, b[1].str)

\* insertion of a name after every name whose key is not greater: a stable sort
RECURSIVE InsertByKey(_, _)
InsertByKey(s, e) ==
    IF s = <<>> THEN <<e>>
    ELSE IF ~KeyLess(natsort_key(e), natsort_key(s[Len(s)])) THEN Append(s, e)
    ELSE Append(InsertByKey(SubSeq(s, 1, Len(s) - 1), e), s[Len(s)])

\* sorted(names) of str names: a stable sort by plain string comparison
RECURSIVE sorted_plain(_)
sorted_plain(names) ==
    IF names = <<>> THEN <<>>
    ELSE LET rest == sorted_plain(SubSeq(names, 1, Len(names) - 1))
             e == names[Len(names)]
             k == Cardinality({i \in 1..Len(rest) : ~StrLess(e, rest[i])})
         IN  SubSeq(rest, 1, k) \o <<e>> \o SubSeq(rest, k + 1, Len(rest))

\* faulty variant: sorted() in place of natsorted()
natsorted_plain(names) == sorted_plain(names)

\* faulty variant: the keys in insertion order, not sorted at all
natsorted_noop(names) == names

\* natsorted(names): sorted(names, key=natsort_key)
RECURSIVE natsorted(_)
natsorted(names) ==
    IF names = <<>> THEN <<>>
    ELSE InsertByKey(natsorted(SubSeq(names, 1, Len(names) - 1)), names[Len(names)])

\* sorted(d.keys()) of str keys
sorted_keys(names) == sorted_plain(names)

\* ------------------------------------------------------------------- dicts
\* a dict is the list of its entries in insertion order, the keys distinct
DictsOver(V) ==
    {d \in ListsUpTo([name : DroneNames, value : V], MaxDrones) :
        \A i, j \in 1..Len(d) : i # j => d[i].name # d[j].name}

\* d.keys(), in insertion order
RECURSIVE Keys(_)
Keys(d) == IF d = <<>> THEN <<>> ELSE <<d[1].name>> \o Keys(Tail(d))

\* d[name]
Lookup(d, name) == (CHOOSE i \in 1..Len(d) : d[i].name = name)

Get(d, name) == d[Lookup(d, name)].value

\* the trajectories and light codes handed to the converter
TrajectoryValues ==
    { Trajectory_init(<<[t |-> 5, x |-> 5, y |-> 0, z |-> 25],
                        [t |-> 0, x |-> -15, y |-> 0, z |-> 25]>>),
      Trajectory_init(<<[t |-> 15, x |-> -15, y |-> 0, z |-> 25]>>) }

LightCodeValues ==
    { LightCode_init(<<[t |-> 0, r |-> 255, g |-> 0, b |-> 255, is_fade |-> TRUE],
                       [t |-> 0, r |-> 0, g |-> 0, b |-> 255, is_fade |-> FALSE]>>),
      LightCode_init(<<>>) }

\* a title JSONEncoder cannot encode (any object that is not a str, such as bytes)
BytesTitle == "b'Demo'"
ShowTitles == {"Demo", BytesTitle}

NDigits == {0, 3}

\* the (indent, ndigits) pairs as_json and to_json are called with
ExportArgs == {<<2, 3>>, <<0, 0>>}

\* -------------------------------------------------------- SkybrushConverter
Unset == <<[name |-> <<"unset">>, value |-> <<>>]>>
NoConverter == [show_title |-> "unset", trajectories |-> Unset, lights |-> Unset]

Constructed == conv.trajectories # Unset /\ conv.lights # Unset

\* a call can be made on the converter that __init__ returned
Callable == Constructed /\ ccall.result # "ValueError" /\ ccall.n < MaxCalls

\* faulty variant: only the numbers of drones are compared
KeysMismatch_len(trajectories, lights) == Len(trajectories) # Len(lights)

\* the condition of SkybrushConverter.__init__ that raises ValueError
KeysMismatch(trajectories, lights) ==
    sorted_keys(Keys(trajectories)) # sorted_keys(Keys(lights))

\* faulty variant: every field is assigned before the drone names are compared
init_fields_assign_first(show_title, trajectories, lights) ==
    [show_title |-> show_title, trajectories |-> trajectories, lights |-> lights]

\* the fields SkybrushConverter.__init__ has assigned when it returns or raises
init_fields(show_title, trajectories, lights) ==
    IF KeysMismatch(trajectories, lights)
    THEN [NoConverter EXCEPT !.show_title = show_title]
    ELSE [show_title |-> show_title, trajectories |-> trajectories, lights |-> lights]

\* SkybrushConverter.__init__
SkybrushConverter_init(show_title, trajectories, lights) ==
    /\ conv = NoConverter
    /\ ccall.op = "init"
    /\ conv' = init_fields(show_title, trajectories, lights)
    /\ ccall' = [op |-> "__init__",
                 arg |-> <<Keys(trajectories), Keys(lights), show_title>>,
                 before |-> <<>>,
                 result |-> IF KeysMismatch(trajectories, lights)
                            THEN "ValueError" ELSE "ok",
                 out |-> None, n |-> 0]
    /\ UNCHANGED <<points, tcall, colors, lcall, fs, threads, heap>>

\* SkybrushConverter._drone_data_as_dict
drone_data_as_dict(c, name, ndigits) ==
    [type |-> "generic",
     settings |-> [name |-> name,
                   lights |-> LightCode_as_dict(Get(c.lights, name), ndigits),
                   trajectory |-> Trajectory_as_dict(Get(c.trajectories, name), ndigits)]]

\* the list comprehension of SkybrushConverter.as_dict: one record per name
RECURSIVE DroneRecords(_, _, _)
DroneRecords(c, names, ndigits) ==
    IF names = <<>> THEN <<>>
    ELSE <<drone_data_as_dict(c, names[1], ndigits)>>
         \o DroneRecords(c, Tail(names), ndigits)

\* SkybrushConverter.as_dict
as_dict(c, ndigits) ==
    [version |-> 1,
     settings |-> <<>>,
     swarm |-> [drones |-> DroneRecords(c, natsorted(Keys(c.trajectories)), ndigits)],
     meta |-> [title |-> c.show_title]]

\* ------------------------------------------------------------ JSONEncoder
\* the text is the list of its tokens; a line break is one token that carries
\* the width of the indentation that follows it
Newline(indent, level) == <<"\\n" \o ToString(indent * level)>>

RECURSIVE Join(_, _)
Join(items, sep) ==
    IF items = <<>> THEN <<>>
    ELSE IF Len(items) = 1 THEN items[1]
    ELSE items[1] \o sep \o Join(Tail(items), sep)

\* a list whose items are already encoded for level + 1
EncodeList(items, indent, level) ==
    IF items = <<>> THEN <<"[]">>
    ELSE <<"[">> \o Newline(indent, level + 1)
         \o Join(items, <<",">> \o Newline(indent, level + 1))
         \o Newline(indent, level) \o <<"]">>

\* the "key": value items of a dict, keys in insertion order
RECURSIVE DictItems(_, _)
DictItems(keys, values) ==
    IF keys = <<>> THEN <<>>
    ELSE << <<"\"" \o keys[1] \o "\":">> \o values[1] >>
         \o DictItems(Tail(keys), Tail(values))

\* a dict whose values are already encoded for level + 1
EncodeDict(keys, values, indent, level) ==
    IF keys = <<>> THEN <<"{}">>
    ELSE <<"{">> \o Newline(indent, level + 1)
         \o Join(DictItems(keys, values), <<",">> \o Newline(indent, level + 1))
         \o Newline(indent, level) \o <<"}">>

RECURSIVE StrOf(_)
StrOf(name) == IF name = <<>> THEN "" ELSE name[1] \o StrOf(Tail(name))

EncodeStr(str) == <<"\"" \o str \o "\"">>
EncodeInt(n) == <<ToString(n)>>
EncodeBool(b) == <<IF b THEN "true" ELSE "false">>
\* float.__repr__ of a value with one decimal digit
EncodeFloat(v) ==
    IF v < 0 THEN <<"-" \o ToString((-v) \div Unit) \o "." \o ToString((-v) % Unit)>>
    ELSE <<ToString(v \div Unit) \o "." \o ToString(v % Unit)>>

\* the entries [t, [x, y, z], []] of a trajectory document, each at the given level
RECURSIVE EncodePoints(_, _, _)
EncodePoints(entries, indent, level) ==
    IF entries = <<>> THEN <<>>
    ELSE << EncodeList(<< EncodeFloat(entries[1][1]),
                          EncodeList(<< EncodeFloat(entries[1][2][1]),
                                        EncodeFloat(entries[1][2][2]),
                                        EncodeFloat(entries[1][2][3]) >>,
                                     indent, level + 1),
                          EncodeList(<<>>, indent, level + 1) >>,
                       indent, level) >>
         \o EncodePoints(Tail(entries), indent, level)

EncodeTrajectory(d, indent, level) ==
    EncodeDict(<<"points", "version">>,
        << EncodeList(EncodePoints(d.points, indent, level + 2), indent, level + 1),
           EncodeInt(d.version) >>,
        indent, level)

\* the entries [t, [r, g, b], is_fade] of a light document
RECURSIVE EncodeColors(_, _, _)
EncodeColors(entries, indent, level) ==
    IF entries = <<>> THEN <<>>
    ELSE << EncodeList(<< EncodeFloat(entries[1][1]),
                          EncodeList(<< EncodeInt(entries[1][2][1]),
                                        EncodeInt(entries[1][2][2]),
                                        EncodeInt(entries[1][2][3]) >>,
                                     indent, level + 1),
                          EncodeBool(entries[1][3]) >>,
                       indent, level) >>
         \o EncodeColors(Tail(entries), indent, level)

EncodeLights(d, indent, level) ==
    EncodeDict(<<"data", "version">>,
        << EncodeList(EncodeColors(d.data, indent, level + 2), indent, level + 1),
           EncodeInt(d.version) >>,
        indent, level)

EncodeDrone(d, indent, level) ==
    EncodeDict(<<"type", "settings">>,
        << EncodeStr(d.type),
           EncodeDict(<<"name", "lights", "trajectory">>,
              << EncodeStr(StrOf(d.settings.name)),
                 EncodeLights(d.settings.lights, indent, level + 2),
                 EncodeTrajectory(d.settings.trajectory, indent, level + 2) >>,
              indent, level + 1) >>,
        indent, level)

RECURSIVE EncodeDrones(_, _, _)
EncodeDrones(drones, indent, level) ==
    IF drones = <<>> THEN <<>>
    ELSE <<EncodeDrone(drones[1], indent, level)>>
         \o EncodeDrones(Tail(drones), indent, level)

\* JSONEncoder(indent=indent).encode(doc) raises TypeError
EncodeRaises(doc) == doc.meta.title = BytesTitle

\* JSONEncoder(indent=indent).encode(doc), for a doc it can encode
Encode(doc, indent) ==
    EncodeDict(<<"version", "settings", "swarm", "meta">>,
        << EncodeInt(doc.version),
           <<"{}">>,
           EncodeDict(<<"drones">>,
              << EncodeList(EncodeDrones(doc.swarm.drones, indent, 3), indent, 2) >>,
              indent, 1),
           EncodeDict(<<"title">>, <<EncodeStr(doc.meta.title)>>, indent, 1) >>,
        indent, 0)

\* SkybrushConverter.as_json
as_json(c, indent, ndigits) == Encode(as_dict(c, ndigits), indent)

as_json_raises(c, ndigits) == EncodeRaises(as_dict(c, ndigits))

\* -------------------------------------------------------------- file system
\* a file is the list of the tokens written to it; Absent is no file
Absent == <<"<absent>">>
OldContent == <<"<old>">>

EmptyFs == [parent |-> FALSE, json |-> Absent, skyc |-> Absent,
            tmp |-> FALSE, tmp_json |-> Absent]

\* the destinations before the converter runs; a file needs its directory
InitialFs ==
    {f \in [parent : BOOLEAN, json : {Absent, OldContent}, skyc : {Absent, OldContent},
            tmp : {FALSE}, tmp_json : {Absent}] :
        ~f.parent => f.json = Absent}

\* f.write either writes all of the text or raises OSError after a part of it
IoOutcomes == {"ok", "fails_midway"}

\* the body of SkybrushConverter.to_json once the parent directory exists:
\* open(path, "w") empties the file, then as_json runs, then f.write
to_json_effect(c, file, indent, ndigits, io) ==
    LET opened == <<>>
        text == as_json(c, indent, ndigits)
    IN  IF as_json_raises(c, ndigits)
        THEN [file |-> opened, result |-> "TypeError"]
        ELSE IF io = "ok"
        THEN [file |-> opened \o text, result |-> "ok"]
        ELSE [file |-> opened \o SubSeq(text, 1, Len(text) \div 2),
              result |-> "OSError"]

\* SkybrushConverter.as_dict, called
Converter_as_dict(ndigits) ==
    /\ Callable
    /\ ccall' = [op |-> "as_dict", arg |-> <<ndigits>>, before |-> <<>>,
                 result |-> "ok", out |-> as_dict(conv, ndigits), n |-> ccall.n + 1]
    /\ UNCHANGED <<points, tcall, colors, lcall, conv, fs, threads, heap>>

\* SkybrushConverter.as_json, called
Converter_as_json(indent, ndigits) ==
    /\ Callable
    /\ ccall' = IF as_json_raises(conv, ndigits)
                THEN [op |-> "as_json", arg |-> <<indent, ndigits>>, before |-> <<>>,
                      result |-> "TypeError", out |-> <<>>, n |-> ccall.n + 1]
                ELSE [op |-> "as_json", arg |-> <<indent, ndigits>>, before |-> <<>>,
                      result |-> "ok", out |-> as_json(conv, indent, ndigits),
                      n |-> ccall.n + 1]
    /\ UNCHANGED <<points, tcall, colors, lcall, conv, fs, threads, heap>>

\* SkybrushConverter.to_json with _create_path_and_open
Converter_to_json(indent, ndigits, io) ==
    /\ Callable
    /\ LET e == to_json_effect(conv, fs.json, indent, ndigits, io)
       IN  /\ fs' = [fs EXCEPT !.parent = TRUE, !.json = e.file]
           /\ ccall' = [op |-> "to_json", arg |-> <<indent, ndigits, io>>, before |-> fs,
                        result |-> e.result, out |-> <<>>, n |-> ccall.n + 1]
    /\ UNCHANGED <<points, tcall, colors, lcall, conv, threads, heap>>

\* the artifact the external renderer writes
Artifact == <<"<skyc>">>

\* faulty variant: the directory is removed only when the body ends without an error
TemporaryDirectory_exit_on_success(f, result) ==
    IF result = "ok" THEN [f EXCEPT !.tmp = FALSE, !.tmp_json = Absent] ELSE f

\* TemporaryDirectory.__exit__: the directory and what is in it are removed
TemporaryDirectory_exit(f, result) == [f EXCEPT !.tmp = FALSE, !.tmp_json = Absent]

\* the with block of SkybrushConverter.to_skyc: the files and the outcome
to_skyc_body(c, f, installed, io, importer, renderer) ==
    LET e == to_json_effect(c, Absent, 2, 3, io)
        written == [f EXCEPT !.tmp = TRUE, !.tmp_json = e.file]
    IN  IF e.result # "ok" THEN [fs |-> written, result |-> e.result]
        ELSE IF ~installed THEN [fs |-> written, result |-> "NotImplementedError"]
        ELSE IF importer # "ok" THEN [fs |-> written, result |-> "ImporterError"]
        ELSE IF renderer = "ok"
        THEN [fs |-> [written EXCEPT !.skyc = Artifact], result |-> "ok"]
        ELSE [fs |-> written, result |-> "RendererError"]

\* SkybrushConverter.to_skyc
Converter_to_skyc(installed, io, importer, renderer) ==
    /\ Callable
    /\ LET body == to_skyc_body(conv, fs, installed, io, importer, renderer)
       IN  /\ fs' = TemporaryDirectory_exit(body.fs, body.result)
           /\ ccall' = [op |-> "to_skyc",
                        arg |-> <<installed, io, importer, renderer>>, before |-> fs,
                        result |-> body.result, out |-> <<>>, n |-> ccall.n + 1]
    /\ UNCHANGED <<points, tcall, colors, lcall, conv, threads, heap>>

\* ------------------------------------------- specification: SkybrushConverter
InitConverter ==
    /\ points = <<>>
    /\ tcall = NoCall
    /\ colors = <<>>
    /\ lcall = NoCall
    /\ conv = NoConverter
    /\ ccall = NoCall
    /\ fs = EmptyFs
    /\ threads = NoThreads
    /\ heap = NoHeap

NextConverter ==
    \/ \E title \in ShowTitles, trajectories \in DictsOver(TrajectoryValues),
          lights \in DictsOver(LightCodeValues) :
            SkybrushConverter_init(title, trajectories, lights)
    \/ \E ndigits \in NDigits : Converter_as_dict(ndigits)
    \/ \E a \in ExportArgs : Converter_as_json(a[1], a[2])

SpecConverter == InitConverter /\ [][NextConverter]_vars

\* ------------------------------------ specification: writing a converter out
\* the converters SkybrushConverter.__init__ returns, of at most MaxExportDrones
ExportConverters ==
    {c \in [show_title : ShowTitles,
            trajectories : DictsOver(TrajectoryValues),
            lights : DictsOver(LightCodeValues)] :
        /\ Len(c.trajectories) <= MaxExportDrones
        /\ ~KeysMismatch(c.trajectories, c.lights)}

InitExport ==
    /\ points = <<>>
    /\ tcall = NoCall
    /\ colors = <<>>
    /\ lcall = NoCall
    /\ conv \in ExportConverters
    /\ ccall = [op |-> "__init__",
                arg |-> <<Keys(conv.trajectories), Keys(conv.lights), conv.show_title>>,
                before |-> <<>>, result |-> "ok", out |-> None, n |-> 0]
    /\ fs \in InitialFs
    /\ threads = NoThreads
    /\ heap = NoHeap

\* whether the Skybrush backend is installed, and the outcomes of its importer
\* and its renderer: the importer runs only when the backend is installed, the
\* renderer only after the importer has succeeded
SkycEnvs ==
    {<<FALSE, None, None>>, <<TRUE, "fails", None>>,
     <<TRUE, "ok", "ok">>, <<TRUE, "ok", "fails">>}

NextExport ==
    \/ \E a \in ExportArgs, io \in IoOutcomes : Converter_to_json(a[1], a[2], io)
    \/ \E io \in IoOutcomes, env \in SkycEnvs :
            Converter_to_skyc(env[1], io, env[2], env[3])

SpecExport == InitExport /\ [][NextExport]_vars

\* ------------------------------------------------------ numbers as text
DigitChars == <<"0", "1", "2", "3", "4", "5", "6", "7", "8", "9">>
DigitOf(c) == CHOOSE d \in 0..9 : DigitChars[d + 1] = c

\* the decimal digits of n >= 0
RECURSIVE nat_repr(_)
nat_repr(n) ==
    IF n < 10 THEN <<DigitChars[n + 1]>>
    ELSE Append(nat_repr(n \div 10), DigitChars[(n % 10) + 1])

\* int.__repr__, as the list of its characters
int_repr(n) == IF n < 0 THEN <<"-">> \o nat_repr(-n) ELSE nat_repr(n)

\* float.__repr__ of a value with one decimal digit, as the list of its characters
float_repr(v) ==
    IF v < 0 THEN <<"-">> \o nat_repr((-v) \div Unit) \o <<".">> \o nat_repr((-v) % Unit)
    ELSE nat_repr(v \div Unit) \o <<".">> \o nat_repr(v % Unit)

\* the number a run of digits denotes
RECURSIVE nat_parse(_, _)
nat_parse(chars, acc) ==
    IF chars = <<>> THEN acc
    ELSE nat_parse(Tail(chars), 10 * acc + DigitOf(chars[1]))

\* int(text)
int_parse(chars) ==
    IF chars[1] = "-" THEN -nat_parse(Tail(chars), 0) ELSE nat_parse(chars, 0)

\* float(text) of a text with one decimal digit, as a fixed-point integer
float_parse(chars) ==
    LET neg == chars[1] = "-"
        body == IF neg THEN Tail(chars) ELSE chars
        dot == CHOOSE i \in 1..Len(body) : body[i] = "."
        whole == nat_parse(SubSeq(body, 1, dot - 1), 0)
        frac == nat_parse(SubSeq(body, dot + 1, Len(body)), 0)
    IN  IF neg THEN -(whole * Unit + frac) ELSE whole * Unit + frac

\* the points read back from the text of a trajectory document
RECURSIVE ParsePoints(_)
ParsePoints(entries) ==
    IF entries = <<>> THEN <<>>
    ELSE <<[t |-> float_parse(float_repr(entries[1][1])),
            x |-> float_parse(float_repr(entries[1][2][1])),
            y |-> float_parse(float_repr(entries[1][2][2])),
            z |-> float_parse(float_repr(entries[1][2][3]))]>>
         \o ParsePoints(Tail(entries))

\* the colors read back from the text of a light document
RECURSIVE ParseColors(_)
ParseColors(entries) ==
    IF entries = <<>> THEN <<>>
    ELSE <<[t |-> float_parse(float_repr(entries[1][1])),
            r |-> int_parse(int_repr(entries[1][2][1])),
            g |-> int_parse(int_repr(entries[1][2][2])),
            b |-> int_parse(int_repr(entries[1][2][3])),
            is_fade |-> entries[1][3]]>>
         \o ParseColors(Tail(entries))

\* the document of the last Trajectory.as_dict is written out, read back into
\* a new Trajectory and exported again at the same precision
Trajectory_reexport ==
    /\ tcall.op = "as_dict"
    /\ tcall' = [op |-> "reexport", arg |-> tcall.arg, before |-> tcall.out,
                 result |-> "ok",
                 out |-> Trajectory_as_dict(
                            Trajectory_init(ParsePoints(tcall.out.points)), tcall.arg),
                 n |-> 0]
    /\ UNCHANGED <<points, colors, lcall, conv, ccall, fs, threads, heap>>

\* the same for the document of the last LightCode.as_dict
LightCode_reexport ==
    /\ lcall.op = "as_dict"
    /\ lcall' = [op |-> "reexport", arg |-> lcall.arg, before |-> lcall.out,
                 result |-> "ok",
                 out |-> LightCode_as_dict(
                            LightCode_init(ParseColors(lcall.out.data)), lcall.arg),
                 n |-> 0]
    /\ UNCHANGED <<colors, points, tcall, conv, ccall, fs, threads, heap>>

\* ------------------------------------------------- specification: Trajectory
InitTrajectory ==
    /\ \E pts \in ListsUpTo(Point4D, MaxInit) : points = Trajectory_init(pts)
    /\ tcall = NoCall
    /\ colors = <<>>
    /\ lcall = NoCall
    /\ conv = NoConverter
    /\ ccall = NoCall
    /\ fs = EmptyFs
    /\ threads = NoThreads
    /\ heap = NoHeap

NextTrajectory ==
    \/ \E point \in Point4D : Trajectory_append(point)
    \/ \E ndigits \in DocNDigits : Trajectory_as_dict_call(ndigits)

SpecTrajectory == InitTrajectory /\ [][NextTrajectory]_vars

\* -------------------------------------------------- specification: LightCode
InitLightCode ==
    /\ \E cols \in ListsUpTo(Color4D, MaxInit) : colors = LightCode_init(cols)
    /\ lcall = NoCall
    /\ points = <<>>
    /\ tcall = NoCall
    /\ conv = NoConverter
    /\ ccall = NoCall
    /\ fs = EmptyFs
    /\ threads = NoThreads
    /\ heap = NoHeap

NextLightCode ==
    \/ \E color \in Color4D : LightCode_append(color)
    \/ \E ndigits \in DocNDigits : LightCode_as_dict_call(ndigits)

SpecLightCode == InitLightCode /\ [][NextLightCode]_vars

\* ------------------------------- specification: documents and their round trip
\* a trajectory or a light code is built, exported and exported again
InitDocuments == InitTrajectory \/ InitLightCode

NextDocuments ==
    \/ /\ lcall.op = "init"
       /\ \/ \E ndigits \in DocNDigits : Trajectory_as_dict_call(ndigits)
          \/ Trajectory_reexport
    \/ /\ tcall.op = "init"
       /\ \/ \E ndigits \in DocNDigits : LightCode_as_dict_call(ndigits)
          \/ LightCode_reexport

SpecDocuments == InitDocuments /\ [][NextDocuments]_vars

\* ------------------------------------ specification: append from two threads
MaxThreadLen == 2
Threads == {1, 2}

\* what the two threads append
ThreadPoints == {p \in Point4D : p.x = 5}
ThreadColors == {c \in Color4D : c.r = 0 /\ ~c.is_fade}

\* a thread outside append
Idle == [pc |-> "idle", arg |-> None, seen |-> 0]

\* an empty Trajectory() or LightCode() shared by the two threads; atomic says
\* whether a caller-side lock makes every append one step
InitThreads ==
    /\ points = <<>>
    /\ tcall = NoCall
    /\ colors = <<>>
    /\ lcall = NoCall
    /\ conv = NoConverter
    /\ ccall = NoCall
    /\ fs = EmptyFs
    /\ threads \in [kind : {"Trajectory", "LightCode"}, atomic : BOOLEAN,
                    at : {[th \in Threads |-> Idle]}, stale : {FALSE}]
    /\ heap = NoHeap

\* the thread has evaluated the condition of Trajectory.append (line 64): it
\* raises, or goes on to the insertion knowing the length it has seen
Trajectory_append_check(th, point) ==
    /\ ~threads.atomic
    /\ threads.at[th].pc # "checked"
    /\ Len(points) < MaxThreadLen
    /\ threads' = [threads EXCEPT !.at[th] =
                      IF Trajectory_append_raises(points, point) THEN Idle
                      ELSE [pc |-> "checked", arg |-> point, seen |-> Len(points)]]
    /\ UNCHANGED <<points, tcall, colors, lcall, conv, ccall, fs, heap>>

\* self.points.append(point) (line 66), after the condition was evaluated
Trajectory_append_insert(th) ==
    /\ ~threads.atomic
    /\ threads.at[th].pc = "checked"
    /\ points' = Append(points, threads.at[th].arg)
    /\ threads' = [threads EXCEPT !.at[th].pc = "inserted",
                                  !.stale = @ \/ threads.at[th].seen # Len(points)]
    /\ UNCHANGED <<tcall, colors, lcall, conv, ccall, fs, heap>>

\* Trajectory.append as one step, the caller holding a lock around it
Trajectory_append_atomic(th, point) ==
    /\ threads.atomic
    /\ Len(points) < MaxThreadLen
    /\ IF Trajectory_append_raises(points, point)
       THEN /\ points' = points
            /\ threads' = [threads EXCEPT !.at[th] = Idle]
       ELSE /\ points' = Append(points, point)
            /\ threads' = [threads EXCEPT !.at[th] =
                              [pc |-> "inserted", arg |-> point, seen |-> Len(points)]]
    /\ UNCHANGED <<tcall, colors, lcall, conv, ccall, fs, heap>>

\* the condition of LightCode.append (line 108)
LightCode_append_check(th, color) ==
    /\ ~threads.atomic
    /\ threads.at[th].pc # "checked"
    /\ Len(colors) < MaxThreadLen
    /\ threads' = [threads EXCEPT !.at[th] =
                      IF LightCode_append_raises(colors, color) THEN Idle
                      ELSE [pc |-> "checked", arg |-> color, seen |-> Len(colors)]]
    /\ UNCHANGED <<points, tcall, colors, lcall, conv, ccall, fs, heap>>

\* self.colors.append(color) (line 110)
LightCode_append_insert(th) ==
    /\ ~threads.atomic
    /\ threads.at[th].pc = "checked"
    /\ colors' = Append(colors, threads.at[th].arg)
    /\ threads' = [threads EXCEPT !.at[th].pc = "inserted",
                                  !.stale = @ \/ threads.at[th].seen # Len(colors)]
    /\ UNCHANGED <<points, tcall, lcall, conv, ccall, fs, heap>>

\* LightCode.append as one step
LightCode_append_atomic(th, color) ==
    /\ threads.atomic
    /\ Len(colors) < MaxThreadLen
    /\ IF LightCode_append_raises(colors, color)
       THEN /\ colors' = colors
            /\ threads' = [threads EXCEPT !.at[th] = Idle]
       ELSE /\ colors' = Append(colors, color)
            /\ threads' = [threads EXCEPT !.at[th] =
                              [pc |-> "inserted", arg |-> color, seen |-> Len(colors)]]
    /\ UNCHANGED <<points, tcall, lcall, conv, ccall, fs, heap>>

NextThreads ==
    \/ /\ threads.kind = "Trajectory"
       /\ \E th \in Threads :
             \/ \E point \in ThreadPoints : Trajectory_append_check(th, point)
             \/ Trajectory_append_insert(th)
             \/ \E point \in ThreadPoints : Trajectory_append_atomic(th, point)
    \/ /\ threads.kind = "LightCode"
       /\ \E th \in Threads :
             \/ \E color \in ThreadColors : LightCode_append_check(th, color)
             \/ LightCode_append_insert(th)
             \/ \E color \in ThreadColors : LightCode_append_atomic(th, color)

SpecThreads == InitThreads /\ [][NextThreads]_vars

\* ------------------------------------- specification: instances and their lists
MaxInstances == 2
MaxAliasLen == 3

\* the list object the caller passes, and the list object that is the default
\* value of the constructor's parameter (one object per function, line 59 / 102)
CallerList == 1
DefaultList == 2

AliasPoint(t) == [t |-> t, x |-> 5, y |-> 0, z |-> 25]
AliasColor(t) == [t |-> t, r |-> 0, g |-> 0, b |-> 255, is_fade |-> FALSE]
AliasTimes == {5, 10}

\* what the caller's list holds: nothing, two elements out of order, two
\* elements of the same time
CallerLists(kind) ==
    IF kind = "Trajectory"
    THEN {<<>>, <<AliasPoint(5), AliasPoint(0)>>, <<AliasPoint(5), AliasPoint(5)>>}
    ELSE {<<>>, <<AliasColor(5), AliasColor(0)>>, <<AliasColor(5), AliasColor(5)>>}

InitAlias ==
    /\ points = <<>>
    /\ tcall = NoCall
    /\ colors = <<>>
    /\ lcall = NoCall
    /\ conv = NoConverter
    /\ ccall = NoCall
    /\ fs = EmptyFs
    /\ threads = NoThreads
    /\ \E kind \in {"Trajectory", "LightCode"} : \E l \in CallerLists(kind) :
          heap = [kind |-> kind, lists |-> <<l, <<>>>>, caller0 |-> l, inst |-> <<>>]

\* faulty variant: the list passed in is sorted in place and stored itself
Trajectory_init_at_in_place(lists, a) ==
    [lists |-> [lists EXCEPT ![a] = Trajectory_init(lists[a])], addr |-> a]

\* Trajectory.__init__ on the list object a: sorted() returns a new list
\* object, which is what self.points refers to
Trajectory_init_at(lists, a) ==
    [lists |-> Append(lists, Trajectory_init(lists[a])), addr |-> Len(lists) + 1]

\* LightCode.__init__ on the list object a
LightCode_init_at(lists, a) ==
    [lists |-> Append(lists, LightCode_init(lists[a])), addr |-> Len(lists) + 1]

\* Trajectory() or Trajectory(l), one more instance
Trajectory_new(from) ==
    /\ Len(heap.inst) < MaxInstances
    /\ LET r == Trajectory_init_at(heap.lists,
                                   IF from = "default" THEN DefaultList ELSE CallerList)
       IN  heap' = [heap EXCEPT !.lists = r.lists,
                                !.inst = Append(@, [addr |-> r.addr, from |-> from])]
    /\ UNCHANGED <<points, tcall, colors, lcall, conv, ccall, fs, threads>>

\* LightCode() or LightCode(l), one more instance
LightCode_new(from) ==
    /\ Len(heap.inst) < MaxInstances
    /\ LET r == LightCode_init_at(heap.lists,
                                  IF from = "default" THEN DefaultList ELSE CallerList)
       IN  heap' = [heap EXCEPT !.lists = r.lists,
                                !.inst = Append(@, [addr |-> r.addr, from |-> from])]
    /\ UNCHANGED <<points, tcall, colors, lcall, conv, ccall, fs, threads>>

\* Trajectory.append on the i-th instance
Trajectory_append_on(i, point) ==
    /\ i \in 1..Len(heap.inst)
    /\ LET a == heap.inst[i].addr
       IN  /\ Len(heap.lists[a]) < MaxAliasLen
           /\ heap' = IF Trajectory_append_raises(heap.lists[a], point) THEN heap
                       ELSE [heap EXCEPT !.lists[a] = Append(@, point)]
    /\ UNCHANGED <<points, tcall, colors, lcall, conv, ccall, fs, threads>>

\* LightCode.append on the i-th instance
LightCode_append_on(i, color) ==
    /\ i \in 1..Len(heap.inst)
    /\ LET a == heap.inst[i].addr
       IN  /\ Len(heap.lists[a]) < MaxAliasLen
           /\ heap' = IF LightCode_append_raises(heap.lists[a], color) THEN heap
                       ELSE [heap EXCEPT !.lists[a] = Append(@, color)]
    /\ UNCHANGED <<points, tcall, colors, lcall, conv, ccall, fs, threads>>

NextAlias ==
    \/ /\ heap.kind = "Trajectory"
       /\ \/ \E from \in {"default", "caller"} : Trajectory_new(from)
          \/ \E i \in 1..MaxInstances, t \in AliasTimes :
                Trajectory_append_on(i, AliasPoint(t))
    \/ /\ heap.kind = "LightCode"
       /\ \/ \E from \in {"default", "caller"} : LightCode_new(from)
          \/ \E i \in 1..MaxInstances, t \in AliasTimes :
                LightCode_append_on(i, AliasColor(t))

SpecAlias == InitAlias /\ [][NextAlias]_vars

\* ------------------------------------------------------------------ claims
Last(s) == s[Len(s)]

\* C1: in every reachable state of a Trajectory, also one constructed from a
\* list with repeated times, the stored points are strictly increasing in t.
\* The constructor only sorts, so repeated times in the initial list survive.
C1_PointsStrictlyIncreasing == StrictlyIncreasing(points)

\* C2: Trajectory.append on a non-empty trajectory raises exactly when
\* point.t <= last.t and then leaves the sequence as it was; in every other
\* case it succeeds and the sequence is the old one with the point at the end.
C2_AppendContract ==
    tcall.op = "append" =>
        /\ tcall.result \in {"ok", "ValueError"}
        /\ (tcall.result = "ValueError") <=>
               (tcall.before # <<>> /\ tcall.arg.t <= Last(tcall.before).t)
        /\ (tcall.result = "ValueError") => points = tcall.before
        /\ (tcall.result = "ok") => points = Append(tcall.before, tcall.arg)

\* a rejected append of a point whose time equals the last point's time
C2_Witness ==
    /\ tcall.op = "append"
    /\ tcall.result = "ValueError"
    /\ tcall.before # <<>>
    /\ tcall.arg.t = Last(tcall.before).t
    /\ points = tcall.before

\* C3: in every reachable state of a LightCode the stored colors are
\* non-decreasing in t.
C3_ColorsNonDecreasing == NonDecreasing(colors)

\* an accepted append onto a light code built from an unsorted initial list
C3_Witness ==
    /\ lcall.op = "append"
    /\ lcall.result = "ok"
    /\ Len(colors) >= 3
    /\ \E i \in 1..Len(colors) - 1 : colors[i].t < colors[i + 1].t
    /\ \E i \in 1..Len(colors) - 1 : colors[i].t = colors[i + 1].t

\* C4: LightCode.append raises exactly when the light code is non-empty and
\* color.t < last.t, leaving the sequence as it was (no re-sort); a color whose
\* time equals last.t is accepted and stored after the existing entry.
C4_AppendContract ==
    lcall.op = "append" =>
        /\ lcall.result \in {"ok", "ValueError"}
        /\ (lcall.result = "ValueError") <=>
               (lcall.before # <<>> /\ lcall.arg.t < Last(lcall.before).t)
        /\ (lcall.result = "ValueError") => colors = lcall.before
        /\ (lcall.result = "ok") => colors = Append(lcall.before, lcall.arg)

\* an accepted append of a different keyframe with the last keyframe's time
C4_Witness ==
    /\ lcall.op = "append"
    /\ lcall.result = "ok"
    /\ lcall.before # <<>>
    /\ lcall.arg.t = Last(lcall.before).t
    /\ lcall.arg # Last(lcall.before)
    /\ Last(colors) = lcall.arg
    /\ colors[Len(colors) - 1] = Last(lcall.before)

ToSet(s) == {s[i] : i \in 1..Len(s)}

\* the lists that hold the entries of d in some order
Reorderings(d) ==
    {[i \in 1..Len(d) |-> d[f[i]]] :
        f \in {g \in [1..Len(d) -> 1..Len(d)] : \A i, j \in 1..Len(d) : i # j => g[i] # g[j]}}

\* the value of a run of digits
RECURSIVE RunValue(_, _)
RunValue(s, acc) ==
    IF s = <<>> \/ s[1] \notin Digits THEN acc
    ELSE RunValue(Tail(s), 10 * acc + DigitValue(s[1]))

\* what follows the leading run of digits
RECURSIVE AfterRun(_)
AfterRun(s) == IF s = <<>> \/ s[1] \notin Digits THEN s ELSE AfterRun(Tail(s))

\* a comes no later than b in natural order: text compared by character and
\* embedded runs of digits by their numeric value
RECURSIVE NaturalLeq(_, _)
NaturalLeq(a, b) ==
    IF a = <<>> THEN TRUE
    ELSE IF b = <<>> THEN FALSE
    ELSE IF a[1] \in Digits /\ b[1] \in Digits
    THEN IF RunValue(a, 0) # RunValue(b, 0) THEN RunValue(a, 0) < RunValue(b, 0)
         ELSE NaturalLeq(AfterRun(a), AfterRun(b))
    ELSE IF a[1] \in Digits THEN TRUE
    ELSE IF b[1] \in Digits THEN FALSE
    ELSE IF a[1] # b[1] THEN Ord(a[1]) < Ord(b[1])
    ELSE NaturalLeq(Tail(a), Tail(b))

\* C5: constructing a converter succeeds if and only if the drone names of the
\* trajectory mapping and of the light-code mapping are the same set.
C5_ConstructIffSameNames ==
    ccall.op = "__init__" =>
        /\ ccall.result \in {"ok", "ValueError"}
        /\ (ccall.result = "ok") <=> (ToSet(ccall.arg[1]) = ToSet(ccall.arg[2]))
        /\ (ccall.result = "ok") => Constructed

\* a refused construction from two mappings of the same size
C5_Witness ==
    /\ ccall.op = "__init__"
    /\ ccall.result = "ValueError"
    /\ Len(ccall.arg[1]) = Len(ccall.arg[2])
    /\ Len(ccall.arg[1]) > 0
    /\ ToSet(ccall.arg[1]) # ToSet(ccall.arg[2])

\* C6 as claimed: when construction fails, none of the fields (title,
\* trajectory mapping, light-code mapping) has been assigned.
C6_NoFieldAssigned ==
    (ccall.op = "__init__" /\ ccall.result = "ValueError") => conv = NoConverter

\* C6 as amended: when construction fails, neither mapping has been assigned;
\* the title, which is assigned before the names are compared, has.
C6_OnlyTitleAssigned ==
    (ccall.op = "__init__" /\ ccall.result = "ValueError") =>
        /\ conv.trajectories = Unset
        /\ conv.lights = Unset
        /\ conv.show_title = ccall.arg[3]

\* a refused construction
C6_Witness ==
    /\ ccall.op = "__init__"
    /\ ccall.result = "ValueError"
    /\ ccall.arg[1] # <<>>
    /\ ccall.arg[2] # <<>>
    /\ conv.show_title = "Demo"

\* C7: as_dict emits exactly one record per drone name, each with that drone's
\* own light code and trajectory documents, in natural order of the names,
\* whatever the insertion order of the mappings.
C7_DronesInNaturalOrder ==
    (ccall.op = "as_dict" /\ ccall.result = "ok") =>
        LET drones == ccall.out.swarm.drones
            ndigits == ccall.arg[1]
        IN  /\ Len(drones) = Len(conv.trajectories)
            /\ \A e \in ToSet(conv.trajectories) :
                   \E i \in 1..Len(drones) :
                      /\ drones[i].settings.name = e.name
                      /\ drones[i].settings.trajectory = Trajectory_as_dict(e.value, ndigits)
            /\ \A e \in ToSet(conv.lights) :
                   \E i \in 1..Len(drones) :
                      /\ drones[i].settings.name = e.name
                      /\ drones[i].settings.lights = LightCode_as_dict(e.value, ndigits)
            /\ \A i, j \in 1..Len(drones) :
                   i < j => NaturalLeq(drones[i].settings.name, drones[j].settings.name)

\* d10 inserted before d2 and emitted after it, the two drones holding
\* different light codes and trajectories
C7_Witness ==
    /\ ccall.op = "as_dict"
    /\ ccall.result = "ok"
    /\ Keys(conv.trajectories) = << <<"d", "1", "0">>, <<"d", "2">> >>
    /\ Keys(conv.lights) = << <<"d", "2">>, <<"d", "1", "0">> >>
    /\ conv.trajectories[1].value # conv.trajectories[2].value
    /\ conv.lights[1].value # conv.lights[2].value
    /\ ccall.out.swarm.drones[1].settings.name = <<"d", "2">>
    /\ ccall.out.swarm.drones[2].settings.name = <<"d", "1", "0">>

\* the converters built from the same title and the same two mappings as c,
\* the entries inserted in any order
SameMappings(c) ==
    {[show_title |-> c.show_title, trajectories |-> t, lights |-> l] :
        t \in Reorderings(c.trajectories), l \in Reorderings(c.lights)}

\* C8 as claimed: two converters with the same title and the same mappings,
\* whatever the insertion order and also with names such as d10 and d010,
\* produce the same text for the same indent and precision.
C8_TextIndependentOfInsertion ==
    (ccall.op = "as_json" /\ ccall.result = "ok") =>
        \A c \in SameMappings(conv) :
            as_json(c, ccall.arg[1], ccall.arg[2]) = ccall.out

\* no two drone names compare equal in natural order
DistinctInNaturalOrder(c) ==
    \A i, j \in 1..Len(c.trajectories) :
        i # j => ~(/\ NaturalLeq(c.trajectories[i].name, c.trajectories[j].name)
                   /\ NaturalLeq(c.trajectories[j].name, c.trajectories[i].name))

\* C8 as amended: the same, provided no two drone names compare equal in
\* natural order; names that do are emitted in insertion order.
C8_TextIndependentWhenDistinct ==
    (ccall.op = "as_json" /\ ccall.result = "ok" /\ DistinctInNaturalOrder(conv)) =>
        \A c \in SameMappings(conv) :
            as_json(c, ccall.arg[1], ccall.arg[2]) = ccall.out

\* text produced for two drones inserted in descending natural order
C8_Witness ==
    /\ ccall.op = "as_json"
    /\ ccall.result = "ok"
    /\ Keys(conv.trajectories) = << <<"d", "1", "0">>, <<"d", "2">> >>
    /\ DistinctInNaturalOrder(conv)
    /\ Len(ccall.out) > 0

\* C9: to_json creates the parent directory and either writes the complete text
\* or, when producing the text or writing it raises, leaves the destination as
\* it was: not created, not truncated, not partially written.
C9_CompleteOrUntouched ==
    ccall.op = "to_json" =>
        /\ fs.parent
        /\ (ccall.result = "ok") => fs.json = as_json(conv, ccall.arg[1], ccall.arg[2])
        /\ (ccall.result # "ok") => fs.json = ccall.before.json

\* C10 as claimed: without a backend to_skyc fails with the missing-backend
\* error, does not write the destination and leaves no temporary directory;
\* the temporary directory is removed on every path.
C10_MissingBackend ==
    ccall.op = "to_skyc" =>
        /\ ~fs.tmp /\ fs.tmp_json = Absent
        /\ ~ccall.arg[1] =>
              /\ ccall.result = "NotImplementedError"
              /\ fs.skyc = ccall.before.skyc

\* C10 as amended: without a backend to_skyc fails, with the missing-backend
\* error when the temporary JSON file was written and otherwise with the error
\* that writing it raised; it does not write the destination, and the temporary
\* directory is removed on every path.
C10_MissingBackendAfterJson ==
    ccall.op = "to_skyc" =>
        /\ ~fs.tmp /\ fs.tmp_json = Absent
        /\ ~ccall.arg[1] =>
              /\ ccall.result \in {"NotImplementedError", "TypeError", "OSError"}
              /\ (ccall.result = "NotImplementedError") <=>
                     (conv.show_title # BytesTitle /\ ccall.arg[2] = "ok")
              /\ (ccall.result = "TypeError") <=> (conv.show_title = BytesTitle)
              /\ fs.skyc = ccall.before.skyc

\* the missing-backend error, an existing destination left alone
C10_Witness ==
    /\ ccall.op = "to_skyc"
    /\ ~ccall.arg[1]
    /\ ccall.result = "NotImplementedError"
    /\ ccall.before.skyc = OldContent
    /\ fs.skyc = OldContent
    /\ ~fs.tmp

\* C11: every r, g, b value LightCode.as_dict emits is an integer in [0,255],
\* for every Color4D that can be constructed and every integer precision.
\* Color4D checks nothing, and round to a negative precision leaves the range.
C11_ChannelsInRange ==
    lcall.op = "as_dict" =>
        \A i \in 1..Len(lcall.out.data) :
            \A k \in 1..3 : lcall.out.data[i][2][k] \in 0..255

\* C14: Trajectory.as_dict emits one entry per stored point, in the stored
\* order, each of the shape [t, [x, y, z], []], with version 1, and leaves the
\* stored points as they were.
C14_OneEntryPerPointInOrder ==
    tcall.op = "as_dict" =>
        /\ tcall.out.version = 1
        /\ Len(tcall.out.points) = Len(points)
        /\ \A i \in 1..Len(points) :
              /\ Len(tcall.out.points[i]) = 3
              /\ tcall.out.points[i][1] = RoundFloat(points[i].t, tcall.arg)
              /\ tcall.out.points[i][2] = <<RoundFloat(points[i].x, tcall.arg),
                                            RoundFloat(points[i].y, tcall.arg),
                                            RoundFloat(points[i].z, tcall.arg)>>
              /\ tcall.out.points[i][3] = <<>>
        /\ points = tcall.before

\* a trajectory built from an unsorted list and then appended to, exported
\* with distinct entries
C14_Witness ==
    /\ tcall.op = "as_dict"
    /\ tcall.arg = 3
    /\ Len(points) >= 3
    /\ Len(tcall.out.points) = Len(points)
    /\ tcall.out.points[1] # tcall.out.points[Len(points)]

\* C12: rounding in as_dict is idempotent: reading the numbers of an exported
\* Trajectory or LightCode document back and exporting them again at the same
\* precision gives the same document.
C12_ReexportSameDocument ==
    /\ tcall.op = "reexport" => tcall.out = tcall.before
    /\ lcall.op = "reexport" => lcall.out = lcall.before

\* a trajectory whose times and coordinates were changed by the rounding,
\* exported twice
C12_Witness ==
    /\ tcall.op = "reexport"
    /\ tcall.arg = 0
    /\ Len(points) >= 2
    /\ \E i \in 1..Len(points) :
          /\ tcall.out.points[i][1] # points[i].t
          /\ tcall.out.points[i][2][1] < 0
          /\ tcall.out.points[i][2][1] # points[i].x

\* C13: append is check-then-act. When every append on a shared Trajectory or
\* LightCode runs as one atomic step the time order of the sequence always
\* holds; with the check and the insertion as separate steps the order is lost
\* only after an insertion made on a check that was no longer current.
C13_AtomicAppendKeepsOrder ==
    threads # NoThreads =>
        /\ threads.atomic => StrictlyIncreasing(points) /\ NonDecreasing(colors)
        /\ ~(StrictlyIncreasing(points) /\ NonDecreasing(colors)) => threads.stale

\* both threads passed the check against the same last element, both inserted,
\* and the sequence is out of order
C13_Witness ==
    /\ threads # NoThreads
    /\ ~threads.atomic
    /\ \A th \in Threads : threads.at[th].pc = "inserted"
    /\ threads.at[1].seen = threads.at[2].seen
    /\ threads.at[1].seen >= 1
    /\ \/ threads.kind = "Trajectory" /\ ~StrictlyIncreasing(points)
       \/ threads.kind = "LightCode" /\ ~NonDecreasing(colors)

\* the sequence the i-th instance stores
Stored(i) == heap.lists[heap.inst[i].addr]

\* no two instances store the same list object, none stores the caller's list
\* or the default list, and those two lists are as they were at the start
C15_NoSharedList ==
    /\ \A i, j \in 1..Len(heap.inst) : i # j => heap.inst[i].addr # heap.inst[j].addr
    /\ \A i \in 1..Len(heap.inst) : heap.inst[i].addr \notin {CallerList, DefaultList}
    /\ heap.lists[CallerList] = heap.caller0
    /\ heap.lists[DefaultList] = <<>>

\* a step that changes the sequence of one instance leaves the sequence of
\* every other instance, the caller's list and the default list unchanged
C15_StepTouchesOneInstance ==
    /\ \A i, j \in 1..Len(heap.inst) :
          i # j /\ Stored(i)' # Stored(i) => Stored(j)' = Stored(j)
    /\ heap.lists'[CallerList] = heap.lists[CallerList]
    /\ heap.lists'[DefaultList] = heap.lists[DefaultList]

\* C15: Trajectory and LightCode instances never share their stored sequence:
\* an append on one instance leaves every other instance unchanged, also for two
\* instances built with the default list or from the same caller's list, and
\* neither construction nor append modifies the caller's list.
C15_InstancesNeverShare ==
    [](heap # NoHeap => C15_NoSharedList) /\ [][C15_StepTouchesOneInstance]_vars

\* two instances built from the same unsorted caller's list, or both with the
\* default list, and an append has made them differ
C15_Witness ==
    /\ heap # NoHeap
    /\ Len(heap.inst) >= 2
    /\ heap.inst[1].from = heap.inst[2].from
    /\ Stored(1) # Stored(2)
    /\ Len(Stored(1)) > Len(heap.lists[IF heap.inst[1].from = "default"
                                        THEN DefaultList ELSE CallerList])
    /\ heap.inst[1].from = "caller" => heap.caller0 # SortedByT(heap.caller0)

====
